---- MODULE Spec2Model ----
(***************************************************************************)
(* Model of the to-do store service of src/app.py: the Flask handlers     *)
(* get_message and handle_todos, the per-request connection kept in the   *)
(* application context (get_db / close_connection), the schema bootstrap  *)
(* init_db, and the part of the SQLite engine the handlers rely on: the   *)
(* todos table with its AUTOINCREMENT key, NOT NULL text and              *)
(* CURRENT_TIMESTAMP default, and the SHARED / RESERVED file locks that   *)
(* serialise transactions of different connections.                       *)
(***************************************************************************)
EXTENDS Integers, Sequences, FiniteSets, TLC

(* ------------------------------ bounds -------------------------------- *)

\* worker threads serving requests concurrently
NumSlots == 2
\* rows the todos table may come to hold
MaxRows == 2
\* seconds the wall clock may advance
MaxClock == 1
\* consecutive invocations of init_db that are told apart
MaxInitRun == 2

Slots == 1..NumSlots

(* --------------------------- JSON payloads ---------------------------- *)

JNull == [t |-> "null"]
JStr(s) == [t |-> "string", s |-> s]
JNum(n) == [t |-> "number", n |-> n]
JArr(items) == [t |-> "array", items |-> items]
JObj(m) == [t |-> "object", m |-> m]
NoKeys == [k \in {} |-> JNull]

\* the decoded JSON bodies a POST /api/todos is tried with
Payloads ==
    { JObj(NoKeys),
      JObj([k \in {"note"} |-> JStr("a")]),
      JObj([k \in {"text"} |-> JStr("a")]),
      JObj([k \in {"text"} |-> JStr("")]),
      JObj([k \in {"text"} |-> JNull]),
      JArr(<<JStr("text")>>),
      JStr("abc"),
      JNum(7) }

\* the modelled strings that have 'text' as a substring
StringsContainingText == {"text"}

\* Python truthiness of a decoded JSON value: `not data`
Falsy(d) ==
    \/ d.t = "null"
    \/ d.t = "object" /\ DOMAIN d.m = {}
    \/ d.t = "array" /\ Len(d.items) = 0
    \/ d.t = "string" /\ d.s = ""
    \/ d.t = "number" /\ d.n = 0

\* `'text' in data` raises TypeError when data is not a container
InRaises(d) == d.t = "number"

\* `'text' in data`, for the values on which it does not raise
HasText(d) ==
    \/ d.t = "object" /\ "text" \in DOMAIN d.m
    \/ d.t = "array" /\ \E i \in 1..Len(d.items) : d.items[i] = JStr("text")
    \/ d.t = "string" /\ d.s \in StringsContainingText

\* `data['text']` raises TypeError on a list or a str, KeyError on a dict without it
SubscriptRaises(d) == d.t /= "object" \/ "text" \notin DOMAIN d.m

\* a presence check that only tests `not data`
MissingTextFalsyOnly(d) == Falsy(d)

\* a presence check that also refuses an empty text: `not data.get('text')`
MissingTextOrEmpty(d) ==
    \/ Falsy(d)
    \/ ~HasText(d)
    \/ d.t = "object" /\ "text" \in DOMAIN d.m /\ Falsy(d.m["text"])

\* `not data or 'text' not in data`
MissingText(d) == Falsy(d) \/ ~HasText(d)

\* lines 76-80 of handle_todos: what becomes of the body before the INSERT
Validate(d) ==
    IF ~Falsy(d) /\ InRaises(d) THEN "raise"
    ELSE IF MissingText(d) THEN "missing"
    ELSE IF SubscriptRaises(d) THEN "raise"
    ELSE "accept"

(* ----------------------------- responses ------------------------------ *)

NoResp == [code |-> 0, body |-> [none |-> TRUE]]
RMessage ==
    [code |-> 200,
     body |-> [status |-> "success",
               message |-> "Initial connection check successful. Database initialized."]]
RList(items) == [code |-> 200, body |-> [items |-> items]]
RCreated(text) ==
    [code |-> 201,
     body |-> [status |-> "success",
               message |-> "To-Do item added successfully.",
               text |-> text]]
RMissingText ==
    [code |-> 400, body |-> [error |-> "Missing \"text\" field in JSON payload."]]
\* an exception that leaves the handler
RServerError == [code |-> 500, body |-> [html |-> "Internal Server Error"]]

(* ----------------------------- SQL values ----------------------------- *)

SqlNull == [t |-> "null"]
SqlText(s) == [t |-> "text", s |-> s]
SqlTime(n) == [t |-> "timestamp", n |-> n]

\* the value sqlite3 binds for the parameter of the INSERT
Bind(j) == IF j.t = "string" THEN SqlText(j.s) ELSE SqlNull

\* a text column declared without NOT NULL
NotNullUnchecked(v) == FALSE

\* text TEXT NOT NULL
NotNullViolated(v) == v = SqlNull

\* a key that is not advanced
NextIdStuck(sq) == sq

\* id INTEGER PRIMARY KEY AUTOINCREMENT: one more than the largest id ever committed
NextId(sq) == sq + 1

NoRow == [id |-> 0, text |-> SqlNull, created_at |-> SqlNull]

\* the row INSERT INTO todos (text) VALUES (?) builds
NewRow(sq, text, now) ==
    [id |-> NextId(sq), text |-> text, created_at |-> SqlTime(now)]

Injective(f) == \A i, j \in DOMAIN f : f[i] = f[j] => i = j

\* ORDER BY created_at DESC: the order of rows with equal created_at is not fixed
OrderedByCreatedAtDesc(s) ==
    \A i, j \in 1..Len(s) : i < j => s[i].created_at.n >= s[j].created_at.n

SelectOrdered(table) ==
    { [i \in 1..Len(table) |-> table[p[i]]] :
        p \in { q \in [1..Len(table) -> 1..Len(table)] : Injective(q) } }

SelectTodos(table) == { s \in SelectOrdered(table) : OrderedByCreatedAtDesc(s) }

\* CREATE TABLE todos without IF NOT EXISTS: raises when the table is there
CreateTableAlways(exists, table) ==
    [ok |-> ~exists, exists |-> TRUE, rows |-> IF exists THEN table ELSE <<>>]

\* CREATE TABLE IF NOT EXISTS todos: the table and its rows afterwards
CreateTableIfNotExists(exists, table) ==
    [ok |-> TRUE, exists |-> TRUE, rows |-> IF exists THEN table ELSE <<>>]

(* ------------------------------- state -------------------------------- *)

VARIABLES
    tableExists,  \* the todos table is in todo.db
    rows,         \* the committed rows of todos, in insertion order
    seq,          \* sqlite_sequence of todos: the largest id ever committed
    clock,        \* CURRENT_TIMESTAMP, in seconds
    shared,       \* connections holding the SHARED lock (open read statement)
    reserved,     \* the connection holding the RESERVED lock, 0 when none
    openConns,    \* connections opened and not closed, named by their worker
    initRun,      \* init_db invocations since the last request, up to MaxInitRun
    initOk,       \* every init_db so far returned without raising
    n201,         \* 201 responses issued so far
    pc,           \* per worker: where its request stands
    method,       \* per worker: the route and verb of its request
    payload,      \* per worker: the body of its request
    g,            \* per worker: g._database of the request's context, 0 when unset
    exc,          \* per worker: an exception left the handler
    pending,      \* per worker: the row its INSERT built, NoRow when none
    txn,          \* per worker: its connection has an open transaction
    resp          \* per worker: the response, NoResp while there is none

vars == <<tableExists, rows, seq, clock, shared, reserved, openConns, initRun,
          initOk, n201, pc, method, payload, g, exc, pending, txn, resp>>

store == <<tableExists, rows, seq>>
locks == <<shared, reserved>>
startup == <<initRun, initOk>>

Init ==
    /\ tableExists = FALSE
    /\ rows = <<>>
    /\ seq = 0
    /\ clock = 0
    /\ shared = {}
    /\ reserved = 0
    /\ openConns = {}
    /\ initRun = 0
    /\ initOk = TRUE
    /\ n201 = 0
    /\ pc = [r \in Slots |-> "idle"]
    /\ method = [r \in Slots |-> "none"]
    /\ payload = [r \in Slots |-> JNull]
    /\ g = [r \in Slots |-> 0]
    /\ exc = [r \in Slots |-> FALSE]
    /\ pending = [r \in Slots |-> NoRow]
    /\ txn = [r \in Slots |-> FALSE]
    /\ resp = [r \in Slots |-> NoResp]

(* ----------------------- connection per request ----------------------- *)

\* get_db: the connection of the context, opened on first use; a connection is
\* named by the worker whose context holds it
GetDb(db, r) == IF db = 0 THEN r ELSE db

\* a teardown that closes only when the request ended without an exception
CloseConnectionOnSuccess(exception, db, open) ==
    IF db /= 0 /\ ~exception THEN open \ {db} ELSE open

\* close_connection: the connections left open after the teardown
CloseConnection(exception, db, open) == IF db /= 0 THEN open \ {db} ELSE open

\* a close that commits the transaction the connection left open
CloseTxnCommits(table, open, pend) ==
    IF open /\ pend /= NoRow THEN Append(table, pend) ELSE table

\* db.close() rolls back the transaction the connection left open
CloseTxn(table, open, pend) == table

(* ------------------------------ actions ------------------------------- *)

\* `with app.app_context(): init_db()` as the module is loaded (process start,
\* reload, test set-up), before any request of the process is served: own
\* context, connection opened and closed
InitDb ==
    /\ \A r \in Slots : pc[r] = "idle"
    /\ LET res == CreateTableIfNotExists(tableExists, rows) IN
        /\ tableExists' = res.exists
        /\ rows' = res.rows
        /\ initOk' = (initOk /\ res.ok)
    /\ initRun' = IF initRun < MaxInitRun THEN initRun + 1 ELSE initRun
    /\ UNCHANGED <<seq, clock, locks, openConns, n201, pc, method, payload, g,
                   exc, pending, txn, resp>>

\* the wall clock passes a second boundary
Tick ==
    /\ clock < MaxClock
    /\ clock' = clock + 1
    /\ UNCHANGED <<store, locks, openConns, startup, n201, pc, method, payload,
                   g, exc, pending, txn, resp>>

\* a request is served once the module is loaded, by the lowest free worker
Accepts(r) ==
    /\ tableExists
    /\ pc[r] = "idle"
    /\ \A q \in Slots : q < r => pc[q] /= "idle"

\* the requests whose row may yet be committed
Writers == { q \in Slots : pc[q] = "commit" }

\* a status check that goes through get_db like handle_todos
GetMessageViaDb(r) ==
    /\ Accepts(r)
    /\ method' = [method EXCEPT ![r] = "GET /api/message"]
    /\ resp' = [resp EXCEPT ![r] = RMessage]
    /\ pc' = [pc EXCEPT ![r] = "teardown"]
    /\ g' = [g EXCEPT ![r] = r]
    /\ openConns' = openConns \cup {r}
    /\ initRun' = 0
    /\ UNCHANGED <<store, clock, locks, initOk, n201, payload, exc, pending, txn>>

\* get_message: the fixed payload, no use of the store
GetMessage(r) ==
    /\ Accepts(r)
    /\ method' = [method EXCEPT ![r] = "GET /api/message"]
    /\ resp' = [resp EXCEPT ![r] = RMessage]
    /\ pc' = [pc EXCEPT ![r] = "teardown"]
    /\ initRun' = 0
    /\ UNCHANGED <<store, clock, locks, openConns, initOk, n201, payload, g,
                   exc, pending, txn>>

\* the connection get_db() yields at the top of handle_todos
OpenDb(r) ==
    /\ g' = [g EXCEPT ![r] = GetDb(g[r], r)]
    /\ openConns' = openConns \cup {GetDb(g[r], r)}

\* handle_todos, GET: get_db and db.execute(SELECT), which takes the SHARED lock
TodosGetExecute(r) ==
    /\ Accepts(r)
    /\ method' = [method EXCEPT ![r] = "GET /api/todos"]
    /\ OpenDb(r)
    /\ shared' = shared \cup {GetDb(g[r], r)}
    /\ pc' = [pc EXCEPT ![r] = "fetch"]
    /\ initRun' = 0
    /\ UNCHANGED <<store, clock, reserved, initOk, n201, payload, exc, pending,
                   txn, resp>>

\* handle_todos, GET: cursor.fetchall() ends the read, jsonify(todos). No commit
\* can pass a SHARED lock, so the rows are those the SELECT saw.
TodosGetFetch(r) ==
    /\ pc[r] = "fetch"
    /\ shared' = shared \ {g[r]}
    /\ \E s \in SelectTodos(rows) : resp' = [resp EXCEPT ![r] = RList(s)]
    /\ pc' = [pc EXCEPT ![r] = "teardown"]
    /\ UNCHANGED <<store, clock, reserved, openConns, startup, n201, method,
                   payload, g, exc, pending, txn>>

\* worker r takes a POST /api/todos with body d: get_db at the top of handle_todos
PostArrives(r, d) ==
    /\ method' = [method EXCEPT ![r] = "POST /api/todos"]
    /\ payload' = [payload EXCEPT ![r] = d]
    /\ OpenDb(r)
    /\ initRun' = 0

\* handle_todos, POST: the presence check answers 400, or the check or
\* data['text'] raises
TodosPostReject(r) ==
    /\ Accepts(r)
    /\ \E d \in Payloads :
        LET v == Validate(d) IN
        /\ v /= "accept"
        /\ PostArrives(r, d)
        /\ resp' = [resp EXCEPT ![r] =
                      IF v = "missing" THEN RMissingText ELSE RServerError]
        /\ exc' = [exc EXCEPT ![r] = (v = "raise")]
        /\ pc' = [pc EXCEPT ![r] = "teardown"]
        /\ UNCHANGED <<store, clock, locks, initOk, n201, pending, txn>>

\* handle_todos, POST, body accepted: db.execute(INSERT). sqlite3 begins a
\* transaction, the statement takes the RESERVED lock, then either fails the
\* NOT NULL constraint (IntegrityError) or leaves its row uncommitted
TodosPostInsert(r) ==
    /\ Accepts(r)
    /\ reserved = 0
    /\ seq + Cardinality(Writers) < MaxRows
    /\ \E d \in Payloads :
        /\ Validate(d) = "accept"
        /\ PostArrives(r, d)
        /\ reserved' = GetDb(g[r], r)
        /\ txn' = [txn EXCEPT ![r] = TRUE]
        /\ LET v == Bind(d.m["text"]) IN
            IF NotNullViolated(v)
              THEN /\ resp' = [resp EXCEPT ![r] = RServerError]
                   /\ exc' = [exc EXCEPT ![r] = TRUE]
                   /\ pc' = [pc EXCEPT ![r] = "teardown"]
                   /\ UNCHANGED pending
              ELSE /\ pending' = [pending EXCEPT ![r] = NewRow(seq, v, clock)]
                   /\ pc' = [pc EXCEPT ![r] = "commit"]
                   /\ UNCHANGED <<resp, exc>>
        /\ UNCHANGED <<store, clock, shared, initOk, n201>>

\* handle_todos, POST, body accepted, while another connection writes: the busy
\* timeout expires and db.execute raises OperationalError (database is locked)
TodosPostInsertBusy(r) ==
    /\ Accepts(r)
    /\ reserved /= 0
    /\ \E d \in Payloads :
        /\ Validate(d) = "accept"
        /\ PostArrives(r, d)
        /\ resp' = [resp EXCEPT ![r] = RServerError]
        /\ exc' = [exc EXCEPT ![r] = TRUE]
        /\ pc' = [pc EXCEPT ![r] = "teardown"]
        /\ UNCHANGED <<store, clock, locks, initOk, n201, pending, txn>>

\* db.commit() with no reader in the way, then the 201 response
TodosPostCommit(r) ==
    /\ pc[r] = "commit"
    /\ shared \ {g[r]} = {}
    /\ rows' = Append(rows, pending[r])
    /\ seq' = pending[r].id
    /\ reserved' = 0
    /\ txn' = [txn EXCEPT ![r] = FALSE]
    /\ resp' = [resp EXCEPT ![r] = RCreated(payload[r].m["text"])]
    /\ n201' = n201 + 1
    /\ pc' = [pc EXCEPT ![r] = "teardown"]
    /\ UNCHANGED <<tableExists, clock, shared, openConns, startup, method,
                   payload, g, exc, pending>>

\* db.commit() while a reader holds SHARED: the busy timeout expires and
\* sqlite3 raises OperationalError; the transaction stays open
TodosPostCommitBusy(r) ==
    /\ pc[r] = "commit"
    /\ shared \ {g[r]} /= {}
    /\ resp' = [resp EXCEPT ![r] = RServerError]
    /\ exc' = [exc EXCEPT ![r] = TRUE]
    /\ pc' = [pc EXCEPT ![r] = "teardown"]
    /\ UNCHANGED <<store, clock, locks, openConns, startup, n201, method,
                   payload, g, pending, txn>>

\* the response is sent and the context popped: close_connection, which ends
\* whatever the connection held; the context and its g are discarded
Teardown(r) ==
    /\ pc[r] = "teardown"
    /\ openConns' = CloseConnection(exc[r], g[r], openConns)
    /\ IF g[r] \in openConns /\ g[r] \notin openConns'
         THEN /\ rows' = CloseTxn(rows, txn[r], pending[r])
              /\ reserved' = IF reserved = g[r] THEN 0 ELSE reserved
              /\ shared' = shared \ {g[r]}
         ELSE UNCHANGED <<rows, reserved, shared>>
    /\ pc' = [pc EXCEPT ![r] = "idle"]
    /\ method' = [method EXCEPT ![r] = "none"]
    /\ payload' = [payload EXCEPT ![r] = JNull]
    /\ g' = [g EXCEPT ![r] = 0]
    /\ exc' = [exc EXCEPT ![r] = FALSE]
    /\ pending' = [pending EXCEPT ![r] = NoRow]
    /\ txn' = [txn EXCEPT ![r] = FALSE]
    /\ resp' = [resp EXCEPT ![r] = NoResp]
    /\ UNCHANGED <<tableExists, seq, clock, startup, n201>>

Next ==
    \/ InitDb
    \/ Tick
    \/ \E r \in Slots :
        \/ GetMessage(r)
        \/ TodosGetExecute(r)
        \/ TodosGetFetch(r)
        \/ TodosPostReject(r)
        \/ TodosPostInsert(r)
        \/ TodosPostInsertBusy(r)
        \/ TodosPostCommit(r)
        \/ TodosPostCommitBusy(r)
        \/ Teardown(r)

Spec == Init /\ [][Next]_vars

(* ----------------------------- properties ----------------------------- *)

IsPost(r) == method[r] = "POST /api/todos"
IsList(r) == method[r] = "GET /api/todos"
IsMessage(r) == method[r] = "GET /api/message"
Answered(r) == pc[r] = "teardown"

ObjectWithoutText(d) == d.t = "object" /\ "text" \notin DOMAIN d.m
HasStringText(d) ==
    d.t = "object" /\ "text" \in DOMAIN d.m /\ d.m["text"].t = "string"
HasNullText(d) ==
    d.t = "object" /\ "text" \in DOMAIN d.m /\ d.m["text"] = JNull

Reverse(s) == [i \in 1..Len(s) |-> s[Len(s) + 1 - i]]
Range(s) == { s[i] : i \in 1..Len(s) }
IsPrefix(s, t) == Len(s) <= Len(t) /\ \A i \in 1..Len(s) : s[i] = t[i]
Occurrences(table, row) == Cardinality({ i \in 1..Len(table) : table[i] = row })

Texts(s) == [i \in 1..Len(s) |-> s[i].text]

\* C1: a List answers 200 with as many items as Creates had succeeded when it
\* ran, their texts in reverse insertion order whatever the created_at values
\* (the empty array on an empty store).
C1_ListIsReverseInsertion ==
    \A r \in Slots :
        (IsList(r) /\ Answered(r)) =>
            /\ resp[r].code = 200
            /\ Len(resp[r].body.items) <= Len(rows)
            /\ Texts(resp[r].body.items) =
                 Reverse(Texts(SubSeq(rows, 1, Len(resp[r].body.items))))

\* C2: the ids of the stored rows are strictly increasing in insertion order
\* (hence unique), none exceeds the recorded sequence, and a row that is not yet
\* committed has an id no stored row has.
C2_IdsIncreasing ==
    /\ \A i, j \in 1..Len(rows) : i < j => rows[i].id < rows[j].id
    /\ \A i \in 1..Len(rows) : 1 <= rows[i].id /\ rows[i].id <= seq
    /\ \A r \in Slots : txn[r] /\ pending[r] /= NoRow =>
          \A i \in 1..Len(rows) : rows[i].id < pending[r].id

C2_Witness ==
    /\ Len(rows) >= 2
    /\ \E r \in Slots :
          IsPost(r) /\ Answered(r) /\ HasStringText(payload[r]) /\ resp[r] = RServerError

C3_NoTextStep(r) ==
    (pc[r] /= pc'[r] /\ IsPost(r)' /\ ObjectWithoutText(payload'[r])) =>
        /\ pc'[r] = "teardown"
        /\ resp'[r] = RMissingText
        /\ resp'[r].code = 400
        /\ store' = store

C3_NoTextTeardown(r) ==
    (pc[r] = "teardown" /\ pc'[r] = "idle" /\ IsPost(r) /\ ObjectWithoutText(payload[r])) =>
        store' = store

\* C3: the step in which a POST whose body is an object without a `text` key is
\* handled answers 400 with the fixed error body, and neither that step nor the
\* teardown of the request changes the stored rows or the id sequence.
C3_MissingTextRejected ==
    [][\A r \in Slots : C3_NoTextStep(r) /\ C3_NoTextTeardown(r)]_vars

C3_Witness ==
    /\ rows /= <<>>
    /\ \E r \in Slots :
          /\ IsPost(r) /\ Answered(r)
          /\ payload[r] = JObj([k \in {"note"} |-> JStr("a")])
          /\ resp[r] = RMissingText

\* C4: every POST whose body is not an object with a string `text` is answered
\* 400 with the fixed error body, and no other way.
C4_BadInputIs400 ==
    \A r \in Slots :
        (IsPost(r) /\ Answered(r) /\ ~HasStringText(payload[r])) =>
            resp[r] = RMissingText

C5_Arrival(r) ==
    (pc[r] = "idle" /\ pc'[r] /= "idle" /\ IsPost(r)' /\ HasStringText(payload'[r])) =>
        \/ /\ pc'[r] = "commit"
           /\ pending'[r].text = SqlText(payload'[r].m["text"].s)
           /\ pending'[r].created_at /= SqlNull
           /\ rows' = rows
        \/ /\ pc'[r] = "teardown"
           /\ reserved /= 0
           /\ resp'[r] = RServerError
           /\ rows' = rows

C5_Commit(r) ==
    (pc[r] = "commit" /\ pc'[r] /= "commit") =>
        \/ /\ resp'[r] = RCreated(payload[r].m["text"])
           /\ resp'[r].code = 201
           /\ rows' = Append(rows, pending[r])
           /\ Occurrences(rows', pending[r]) = 1
        \/ /\ shared \ {g[r]} /= {}
           /\ resp'[r] = RServerError
           /\ rows' = rows

C5_List(r) ==
    (pc[r] = "fetch" /\ pc'[r] /= "fetch") =>
        /\ resp'[r].code = 200
        /\ Len(resp'[r].body.items) = Len(rows)
        /\ Range(resp'[r].body.items) = Range(rows)

C6_InitIdempotent ==
    [][InitDb =>
         /\ initOk'
         /\ tableExists'
         /\ seq' = seq
         /\ IF tableExists THEN rows' = rows ELSE rows' = <<>>]_vars

C6_Witness ==
    /\ initRun >= 2
    /\ initOk
    /\ tableExists
    /\ Len(rows) >= 2

\* C7: a worker between requests has no connection, every open connection is
\* the one of exactly one request in progress, and only open connections hold
\* locks: whatever way a request ended, its connection was closed with it.
C7_ConnectionPerRequest ==
    /\ \A r \in Slots : pc[r] = "idle" => g[r] = 0 /\ r \notin openConns
    /\ openConns = { g[r] : r \in { q \in Slots : g[q] /= 0 } }
    /\ \A r, q \in Slots : (r /= q /\ g[r] /= 0) => g[r] /= g[q]
    /\ shared \subseteq openConns
    /\ reserved /= 0 => reserved \in openConns

C7_Witness ==
    \E r, q \in Slots :
        /\ r /= q
        /\ pc[q] = "idle"
        /\ Answered(r) /\ exc[r] /\ resp[r] = RServerError
        /\ openConns = {g[r]}
        /\ rows /= <<>>

C8_Step(r) ==
    (pc[r] /= pc'[r] /\ (IsMessage(r) \/ IsMessage(r)')) =>
        /\ store' = store
        /\ locks' = locks
        /\ openConns' = openConns
        /\ g'[r] = 0
        /\ IsMessage(r)' =>
              /\ resp'[r].code = 200
              /\ resp'[r].body.status = "success"
              /\ \A q \in Slots : (IsMessage(q) /\ Answered(q)) =>
                    resp[q] = resp'[r]

\* C8: the status check answers 200 with the same payload whatever the store
\* holds, and the steps of such a request change neither the store nor the set
\* of open connections, and leave the request without a connection.
C8_StatusCheckFixed == [][\A r \in Slots : C8_Step(r)]_vars

C8_Witness ==
    \E r, q \in Slots :
        /\ IsMessage(r) /\ Answered(r) /\ resp[r] = RMessage
        /\ IsPost(q) /\ Answered(q) /\ resp[q] = RMissingText
        /\ rows /= <<>>

\* C9: every stored row has a text that is not NULL.
C9_TextNotNull == \A i \in 1..Len(rows) : rows[i].text /= SqlNull

C9_Witness ==
    /\ rows /= <<>>
    /\ \E r \in Slots :
          IsPost(r) /\ Answered(r) /\ HasNullText(payload[r]) /\ resp[r] = RServerError

\* C10: as many rows are stored as 201 responses were issued; a request answered
\* 201 has exactly one stored row, carrying its text; stored rows have distinct
\* ids; a POST answered otherwise has no stored row.
C10_OneRowPer201 ==
    /\ Len(rows) = n201
    /\ \A i, j \in 1..Len(rows) : i /= j => rows[i].id /= rows[j].id
    /\ \A r \in Slots : resp[r].code = 201 =>
          /\ Occurrences(rows, pending[r]) = 1
          /\ pending[r].text = Bind(payload[r].m["text"])
    /\ \A r, q \in Slots : (r /= q /\ resp[r].code = 201 /\ resp[q].code = 201) =>
          pending[r].id /= pending[q].id
    /\ \A r \in Slots : (IsPost(r) /\ Answered(r) /\ resp[r].code /= 201) =>
          Occurrences(rows, pending[r]) = 0

C10_Witness ==
    \E r, q \in Slots :
        /\ r /= q
        /\ resp[r].code = 201
        /\ IsPost(q) /\ HasStringText(payload[q]) /\ resp[q] = RServerError
        /\ Len(rows) >= 2

====
